---- MODULE Spec2Model ----
(***************************************************************************)
(* Training orchestration of MILQT.                                        *)
(*                                                                         *)
(*   src/train.py    train (epoch driver: learning-rate policy, gradient   *)
(*                   accumulation schedule, checkpointing), evaluate,      *)
(*                   compute_score_with_logits                             *)
(*   src/trainer.py  Trainer (step executor: train_step, _forward,         *)
(*                   _backward, _all_reduce_and_rescale, _opt, ...)        *)
(*                                                                         *)
(* Numbers.  Learning rates are integers in units of 0.001/1024, so that   *)
(* 0.001 is 1024 and every product of the schedule is exact.  Label        *)
(* weights are integers in units of 1/WeightOne.  A tensor that the code   *)
(* divides (flat_grads.div_, score / len(dataset)) is kept as an exact     *)
(* fraction [num, den].  None is the empty tuple for a gradient and the    *)
(* string "None" for a loss.                                               *)
(***************************************************************************)
EXTENDS Integers, Sequences, FiniteSets, TLC

(***************************************************************************)
(* Bounds of the model.                                                    *)
(***************************************************************************)
MaxN == 3
MaxBatchSize == 2
MaxUpdateFreq == 2
MaxFaults == 1
ScheduleEpochs == 20
MaxEvalN == 3
\* the label weight 1.0
WeightOne == 10

\* gradient of one micro-batch, as the factor g of Contribution(g)
GradValues == {1, 2}
\* args.clip_norm
ClipNorms == {6}
\* args.lr, in units of 0.001/1024
LrValues == {1024, 2048}
\* args.print_interval
PrintIntervals == {1, 2}
\* evaluation scores an epoch's evaluate() may return
EvalScores == {0, 1, 2}
\* the examples an evaluation set is made of: soft answer labels and question-type labels
Examples ==
    { [a |-> <<WeightOne, 0>>, qt |-> <<WeightOne, 0>>],
      [a |-> <<3, 6>>,         qt |-> <<0, WeightOne>>],
      [a |-> <<0, 0>>,         qt |-> <<0, 3>>] }
\* the rows of logits the model may output for one example
LogitRows == {<<0, 1>>, <<1, 0>>, <<1, 1>>}
\* element counts of the model's trainable parameters, in named_parameters() order
ParamNumel == <<1, 2>>
\* other parameter sets, for the copy into and out of the flat buffer
NumelSets == {<<1>>, <<1, 2>>, <<2, 1>>, <<1, 1, 2>>, <<3, 1>>}
\* values of an element of the flat buffer
FlatValues == {0, 1, 2}

(***************************************************************************)
(* Program constants of train().                                           *)
(***************************************************************************)
lr_decay_step == 2
lr_decay_rate_num == 25
lr_decay_rate_den == 100
saving_epoch == 3

\* range(a, b, step) as a set
Range(a, b, step) == {a + k * step : k \in {k \in 0..(b - a) : a + k * step < b}}

lr_decay_epochs == Range(10, 20, lr_decay_step)

\* a warmup that ends at the base rate
gradual_warmup_steps_to_base(lr_default) ==
    << (25 * lr_default) \div 100, (50 * lr_default) \div 100,
       (75 * lr_default) \div 100, (100 * lr_default) \div 100 >>

gradual_warmup_steps(lr_default) ==
    << (5 * lr_default) \div 10, (10 * lr_default) \div 10,
       (15 * lr_default) \div 10, (20 * lr_default) \div 10 >>

\* lr *= lr_decay_rate
DecayLr(lr) == (lr * lr_decay_rate_num) \div lr_decay_rate_den

\* a decay that starts from the base rate every time
SelectLrFromBase(e, lr, lr_default) ==
    IF e < Len(gradual_warmup_steps(lr_default))
    THEN gradual_warmup_steps(lr_default)[e + 1]
    ELSE IF e \in lr_decay_epochs THEN DecayLr(lr_default) ELSE lr

\* the learning rate train() selects at the start of epoch e
SelectLr(e, lr, lr_default) ==
    IF e < Len(gradual_warmup_steps(lr_default))
    THEN gradual_warmup_steps(lr_default)[e + 1]
    ELSE IF e \in lr_decay_epochs THEN DecayLr(lr) ELSE lr

\* num_batches = int(N/args.batch_size + 1)
num_batches(N, batch_size) == (N \div batch_size) + 1

\* micro-batches the data loader emits in one pass over N examples
NumEmitted(N, batch_size) == (N + batch_size - 1) \div batch_size

\* the condition of line 90: this micro-batch only accumulates
Buffering(idx, N, batch_size, update_freq) ==
    idx < num_batches(N, batch_size) - 1 /\ (idx + 1) % update_freq > 0

\* int(args.print_interval / update_freq)
PrintEvery(print_interval, update_freq) == print_interval \div update_freq

(***************************************************************************)
(* Gradients: one tuple per trainable parameter, <<>> while p.grad is None.*)
(***************************************************************************)
RECURSIVE SumSeq(_)
SumSeq(s) == IF s = <<>> THEN 0 ELSE Head(s) + SumSeq(Tail(s))

Params == 1..Len(ParamNumel)

Offset(k) == SumSeq(SubSeq(ParamNumel, 1, k - 1))

NoGrads == [k \in Params |-> <<>>]

\* the gradient loss.backward() computes for a micro-batch of factor g
Contribution(g) == [k \in Params |-> [j \in 1..ParamNumel[k] |-> g * (Offset(k) + j)]]

\* a backward pass that overwrites p.grad
Overwrite(gr, g) == [k \in Params |-> Contribution(g)[k]]

\* loss.backward(): p.grad is set where it was None, accumulated where it was not
Accumulate(gr, g) ==
    [k \in Params |->
        IF gr[k] = <<>> THEN Contribution(g)[k]
        ELSE [j \in 1..ParamNumel[k] |-> gr[k][j] + Contribution(g)[k][j]]]

\* optimizer.zero_grad(): every gradient that exists becomes zero
zero_grad(gr) ==
    [k \in Params |-> IF gr[k] = <<>> THEN <<>> ELSE [j \in 1..ParamNumel[k] |-> 0]]

\* _get_grads raises when a trainable parameter has no gradient
MissingGrad(gr) == \E k \in Params : gr[k] = <<>>

RECURSIVE Concat(_)
Concat(ss) == IF ss = <<>> THEN <<>> ELSE Head(ss) \o Concat(Tail(ss))

\* _get_flat_grads: the gradients copied into one buffer at increasing offsets
_get_flat_grads(gr) == Concat(gr)

\* the offset of the k-th of the parameters of sizes numel in the flat buffer
OffsetIn(numel, k) == SumSeq(SubSeq(numel, 1, k - 1))

\* a copy back that walks the parameters from the last to the first
ScatterReversed(numel, flat) ==
    [k \in 1..Len(numel) |->
        LET off == SumSeq(SubSeq(numel, k + 1, Len(numel))) IN
        SubSeq(flat, off + 1, off + numel[k])]

\* lines 223-227: g.copy_(new_grads[offset:offset+numel]) for every parameter in turn
Scatter(numel, flat) ==
    [k \in 1..Len(numel) |->
        SubSeq(flat, OffsetIn(numel, k) + 1, OffsetIn(numel, k) + numel[k])]

\* _set_flat_grads: the buffer copied back, parameter by parameter
_set_flat_grads(flat) == Scatter(ParamNumel, flat)

SumSq(s) == SumSeq([j \in 1..Len(s) |-> s[j] * s[j]])

\* grad_norm > clip_norm for the buffer flat/den
Clips(flat, den, clip_norm) == SumSq(flat) > clip_norm * clip_norm * den * den

\* _all_reduce_and_rescale: flatten, divide by grad_denom, clip, copy back.
\* The result is the gradient left in the parameters and the norm returned.
_all_reduce_and_rescale(gr, grad_denom, clip_norm) ==
    LET flat == _get_flat_grads(gr) IN
    [ grad    |-> [num |-> _set_flat_grads(flat), den |-> grad_denom,
                   clipped |-> Clips(flat, grad_denom, clip_norm)],
      norm_sq |-> [num |-> SumSq(flat), den |-> grad_denom * grad_denom],
      size    |-> Len(flat) ]

NoStep == [num |-> NoGrads, den |-> 1, clipped |-> FALSE]

VARIABLES
    args,            \* the configuration and the arguments of train()
    pc,              \* the position of train()
    exc,             \* the exception that left train(), "none" while it runs
    epoch, i, num_updates, count_norm, eval_score, best_eval_score,
    optim,           \* the optimizer: lr, number of steps taken, gradient of the last step
    grads,           \* p.grad of every trainable parameter
    buffered_stats,  \* Trainer._buffered_stats
    tr_num_updates,  \* Trainer._num_updates
    meters,          \* the gnorm, clip and oom meters
    flat_size,       \* size of Trainer._flat_grads, 0 while it is None
    ret,             \* what the last train_step call returned
    call,            \* the last train_step call: its arguments and what happened in it
    ckpt,            \* checkpoints written: the per-epoch files and the epoch of "best"
    faults,          \* failures injected so far
    hist,            \* history of the run (what the claims speak about)
    ev               \* evaluate(): its data loader, its accumulators and its result

vars == << args, pc, exc, epoch, i, num_updates, count_norm, eval_score,
           best_eval_score, optim, grads, buffered_stats, tr_num_updates,
           meters, flat_size, ret, call, ckpt, faults, hist, ev >>


NoCall == [epoch |-> -1, i |-> -1, commit |-> FALSE, forward |-> "ok", backward |-> "ok",
           oom_fwd |-> 0, oom_bwd |-> 0, overflow |-> FALSE, stepped |-> FALSE, g |-> 0]

NoRet == [returned |-> "None", loss |-> "None", norm_sq |-> [num |-> 0, den |-> 1]]

NoStats == [sample_sizes |-> <<>>, ooms_fwd |-> <<>>, ooms_bwd |-> <<>>]

NoMeters == [gnorm_n |-> 0, clip_sum |-> 0, clip_n |-> 0, oom_sum |-> 0, oom_n |-> 0]

\* grp_*: the micro-batches of the current group of update_freq consecutive
\* micro-batches of the epoch (sum of their gradients, their number, an OOM among
\* them); pend_*: the micro-batches since the last commit; max_all, max_saved: the
\* highest evaluation score of the earlier epochs, and of those from saving_epoch on;
\* pend_calls: the train_step calls since the last commit that returned; pend_live:
\* those of them whose gradient is part of the accumulated gradient
NoHist == [grp_sum |-> 0, grp_n |-> 0, grp_oom |-> FALSE, pend_sum |-> 0, pend_oom |-> FALSE,
           max_all |-> -1, max_saved |-> -1, pend_calls |-> 0, pend_live |-> 0]

\* evaluate() before it is called on the examples data
NewEval(data, batch_size) ==
    [ data |-> data, batch_size |-> batch_size, pos |-> 0,
      score |-> 0, question_type_score |-> 0,
      upper_bound |-> 0, question_type_upper_bound |-> 0, num_data |-> 0,
      preds |-> <<>>, qt_preds |-> <<>>, batch_score |-> 0, question_type_batch_score |-> 0,
      result |-> << >> ]

NoEval == NewEval(<<>>, 1)

Max2(a, b) == IF a > b THEN a ELSE b

Min(S) == CHOOSE x \in S : \A y \in S : x <= y

\* a configuration of train(): the options it reads, its arguments, and data, the
\* gradients the micro-batches of the training set produce
Config(N, batch_size, update_freq, print_interval, testing, clip_norm, lr, has_eval, s_epoch, num_epochs, data) ==
    [ N |-> N, batch_size |-> batch_size, update_freq |-> update_freq,
      print_interval |-> print_interval, testing |-> testing,
      clip_norm |-> clip_norm, lr |-> lr, has_eval |-> has_eval,
      s_epoch |-> s_epoch, num_epochs |-> num_epochs, data |-> data ]

\* the state when train() reaches its epoch loop (lines 29-59)
Start(a, f, p, e) ==
    /\ args = a
    /\ pc = p
    /\ exc = "none"
    /\ epoch = a.s_epoch
    /\ i = 0
    /\ num_updates = 0
    /\ count_norm = 0
    /\ eval_score = 0
    /\ best_eval_score = 0
    /\ optim = [lr |-> a.lr, steps |-> 0, last |-> NoStep]
    /\ grads = NoGrads
    /\ buffered_stats = NoStats
    /\ tr_num_updates = 0
    /\ meters = NoMeters
    /\ flat_size = 0
    /\ ret = NoRet
    /\ call = NoCall
    /\ ckpt = [epochs |-> {}, best |-> -1]
    /\ faults = f
    /\ hist = NoHist
    /\ ev = e

\* two epochs around saving_epoch, without an evaluation loader, failures injected
Init ==
    \E N \in 1..MaxN, batch_size \in 1..MaxBatchSize, update_freq \in 1..MaxUpdateFreq,
       print_interval \in PrintIntervals, testing \in BOOLEAN, clip_norm \in ClipNorms :
        Start(Config(N, batch_size, update_freq, print_interval, testing, clip_norm, 1024, FALSE,
                     saving_epoch - 1, saving_epoch + 1, GradValues),
              0, "epoch_start", NoEval)

\* the whole schedule from epoch 0, with an evaluation loader, one failure injected
InitSchedule ==
    \E N \in 1..2, update_freq \in 1..MaxUpdateFreq, lr \in LrValues, clip_norm \in ClipNorms :
        Start(Config(N, 1, update_freq, 2, FALSE, clip_norm, lr, TRUE, 0, ScheduleEpochs, {1}),
              MaxFaults - 1, "epoch_start", NoEval)

(***************************************************************************)
(* train(), lines 62-79: the head of the epoch loop.                       *)
(***************************************************************************)
EpochStart ==
    /\ pc = "epoch_start"
    /\ IF epoch >= args.num_epochs
       THEN /\ pc' = "done"
            /\ UNCHANGED << i, num_updates, count_norm, optim >>
       ELSE /\ pc' = "loop"
            /\ i' = 0
            /\ num_updates' = 0
            /\ count_norm' = 0
            /\ optim' = [optim EXCEPT !.lr = SelectLr(epoch, optim.lr, args.lr)]
    /\ UNCHANGED << args, exc, epoch, eval_score, best_eval_score, grads, buffered_stats,
                    tr_num_updates, meters, flat_size, ret, call, ckpt, faults, hist, ev >>

(***************************************************************************)
(* Trainer.train_step on micro-batch i.  forward and backward are what the *)
(* two passes do ("ok", "oom": a RuntimeError that says out of memory,     *)
(* "error": any other RuntimeError), overflow whether the rescaling raises *)
(* OverflowError, g the gradient of the micro-batch, populated the         *)
(* parameters a failed first backward pass had already given a gradient.   *)
(***************************************************************************)
_backward(gr, backward, g, populated) ==
    CASE backward = "ok"  -> Accumulate(gr, g)
      [] backward = "oom" -> zero_grad([k \in Params |->
                                 IF gr[k] = <<>> /\ k \in populated
                                 THEN Contribution(g)[k] ELSE gr[k]])
      [] OTHER            -> gr

\* a handler that takes every RuntimeError for an out-of-memory one
SwallowsAll(outcome) == FALSE

\* lines 162-167, 177-182: a RuntimeError that does not say out of memory is raised again
Reraises(outcome) == outcome = "error"

\* buffering that leaves out the sample size of a micro-batch that ran out of memory
Append3SkipOom(bs, oom_fwd, oom_bwd) ==
    [ sample_sizes |-> IF oom_fwd + oom_bwd > 0 THEN bs.sample_sizes
                       ELSE Append(bs.sample_sizes, 1),
      ooms_fwd     |-> Append(bs.ooms_fwd, oom_fwd),
      ooms_bwd     |-> Append(bs.ooms_bwd, oom_bwd) ]

\* an overflow handler that leaves the gradients
OnOverflowKeep(gr) == gr

\* except OverflowError: self.zero_grad()
OnOverflow(gr) == zero_grad(gr)

Append3(bs, oom_fwd, oom_bwd) ==
    [ sample_sizes |-> Append(bs.sample_sizes, 1),
      ooms_fwd     |-> Append(bs.ooms_fwd, oom_fwd),
      ooms_bwd     |-> Append(bs.ooms_bwd, oom_bwd) ]

train_step(update_params, forward, backward, overflow, g, populated) ==
    LET oom_fwd == IF forward = "oom" THEN 1 ELSE 0
        loss    == IF forward = "ok" THEN "loss" ELSE "None"
        ran_bwd == loss # "None"
        oom_bwd == IF ran_bwd /\ backward = "oom" THEN 1 ELSE 0
        raised  == Reraises(forward) \/ (ran_bwd /\ Reraises(backward))
        gr1     == IF ran_bwd THEN _backward(grads, backward, g, populated) ELSE grads
        stats   == Append3(buffered_stats, oom_fwd, oom_bwd)
        grad_denom == SumSeq(stats.sample_sizes)
        ooms    == SumSeq(stats.ooms_fwd) + SumSeq(stats.ooms_bwd)
        contributes == ran_bwd /\ backward = "ok"
        seen    == [call EXCEPT !.epoch = epoch, !.i = i, !.commit = update_params,
                                !.forward = forward, !.backward = backward,
                                !.oom_fwd = oom_fwd, !.oom_bwd = oom_bwd,
                                !.overflow = FALSE, !.stepped = FALSE,
                                !.g = IF contributes THEN g ELSE 0]
        h1      == LET fresh == i % args.update_freq = 0
                       first == buffered_stats.sample_sizes = <<>>
                       after_commit == call.i < 0 \/ (call.commit /\ ret.returned = "tuple") IN
                   [hist EXCEPT
                      !.pend_calls = (IF after_commit THEN 0 ELSE hist.pend_calls) + 1,
                      !.pend_live  = IF oom_bwd = 1 THEN 0
                                     ELSE (IF after_commit THEN 0 ELSE hist.pend_live)
                                          + (IF contributes THEN 1 ELSE 0),
                      !.grp_sum  = (IF fresh THEN 0 ELSE hist.grp_sum)
                                   + (IF contributes THEN g ELSE 0),
                      !.grp_n    = (IF fresh THEN 0 ELSE hist.grp_n) + 1,
                      !.grp_oom  = (IF fresh THEN FALSE ELSE hist.grp_oom)
                                   \/ oom_fwd + oom_bwd > 0,
                      !.pend_sum = (IF first THEN 0 ELSE hist.pend_sum)
                                   + (IF contributes THEN g ELSE 0),
                      !.pend_oom = (IF first THEN FALSE ELSE hist.pend_oom)
                                   \/ oom_fwd + oom_bwd > 0]
    IN
    IF raised
    THEN \* _forward or _backward re-raises: nothing was buffered
         /\ exc' = "RuntimeError"
         /\ pc' = "crashed"
         /\ grads' = grads
         /\ call' = seen
         /\ UNCHANGED << buffered_stats, optim, tr_num_updates, meters, flat_size, ret, hist >>
    ELSE IF ~update_params
    THEN \* buffering updates
         /\ grads' = gr1
         /\ buffered_stats' = stats
         /\ ret' = NoRet
         /\ call' = seen
         /\ hist' = h1
         /\ pc' = "after_step"
         /\ UNCHANGED << exc, optim, tr_num_updates, meters, flat_size >>
    ELSE IF MissingGrad(gr1)
    THEN \* _get_grads raises RuntimeError, which the except clause does not catch
         /\ exc' = "RuntimeError"
         /\ pc' = "crashed"
         /\ grads' = gr1
         /\ buffered_stats' = stats
         /\ call' = seen
         /\ hist' = h1
         /\ UNCHANGED << optim, tr_num_updates, meters, flat_size, ret >>
    ELSE LET r == _all_reduce_and_rescale(gr1, grad_denom, args.clip_norm) IN
         /\ flat_size' = r.size
         /\ IF overflow
            THEN \* except OverflowError: zero_grad, the step is skipped
                 /\ grads' = OnOverflow(gr1)
                 /\ ret' = [returned |-> "tuple", loss |-> loss,
                            norm_sq |-> [num |-> 0, den |-> 1]]
                 /\ call' = [seen EXCEPT !.overflow = TRUE]
                 /\ UNCHANGED << optim, tr_num_updates, meters >>
            ELSE \* _opt: optimizer.step(), zero_grad, _num_updates += 1; then the meters
                 /\ optim' = [optim EXCEPT !.steps = @ + 1, !.last = r.grad]
                 /\ grads' = zero_grad(r.grad.num)
                 /\ tr_num_updates' = tr_num_updates + 1
                 /\ meters' = [ gnorm_n  |-> meters.gnorm_n + 1,
                                clip_sum |-> meters.clip_sum + (IF r.grad.clipped THEN 1 ELSE 0),
                                clip_n   |-> meters.clip_n + 1,
                                oom_sum  |-> meters.oom_sum + ooms,
                                oom_n    |-> meters.oom_n + 1 ]
                 /\ ret' = [returned |-> "tuple", loss |-> loss, norm_sq |-> r.norm_sq]
                 /\ call' = [seen EXCEPT !.stepped = TRUE]
         /\ buffered_stats' = NoStats
         /\ hist' = h1
         /\ pc' = "after_step"
         /\ exc' = exc

\* failures one call injects
Injected(forward, backward, overflow) ==
    (IF forward # "ok" THEN 1 ELSE 0) + (IF backward # "ok" THEN 1 ELSE 0)
    + (IF overflow THEN 1 ELSE 0)

(***************************************************************************)
(* train(), lines 82-93: the loader emits micro-batch i and the driver     *)
(* calls train_step, buffering or committing.                              *)
(***************************************************************************)
TrainStep ==
    /\ pc = "loop"
    /\ i < NumEmitted(args.N, args.batch_size)
    /\ LET commit == ~Buffering(i, args.N, args.batch_size, args.update_freq) IN
       \E forward \in {"ok", "oom", "error"}, backward \in {"ok", "oom", "error"},
          overflow \in BOOLEAN, g \in args.data, populated \in SUBSET Params :
          /\ faults + Injected(forward, backward, overflow) <= MaxFaults
          \* one choice for what the call does not read
          /\ forward # "ok" => backward = "ok"
          /\ (forward # "ok" \/ backward # "ok") => g = Min(args.data)
          /\ ~(forward = "ok" /\ backward = "oom" /\ grads = NoGrads) => populated = {}
          /\ (~commit \/ forward = "error" \/ backward = "error") => ~overflow
          /\ faults' = faults + Injected(forward, backward, overflow)
          /\ train_step(commit, forward, backward, overflow, g, populated)
    /\ UNCHANGED << args, epoch, i, num_updates, count_norm, eval_score,
                    best_eval_score, ckpt, ev >>


(***************************************************************************)
(* train(), lines 93-104: what the driver does with the result of a        *)
(* commit; a buffered call returned None and the loop goes on.             *)
(***************************************************************************)
DriverAccumulate ==
    /\ pc = "after_step"
    /\ IF ret.returned = "None"
       THEN /\ i' = i + 1
            /\ pc' = "loop"
            /\ UNCHANGED << exc, num_updates, count_norm >>
       ELSE /\ count_norm' = count_norm + 1
            /\ IF ret.loss = "None"
               THEN \* loss.item() on None
                    /\ exc' = "AttributeError"
                    /\ pc' = "crashed"
                    /\ UNCHANGED << i, num_updates >>
               ELSE /\ num_updates' = num_updates + 1
                    /\ IF PrintEvery(args.print_interval, args.update_freq) = 0
                       THEN \* num_updates % 0
                            /\ exc' = "ZeroDivisionError"
                            /\ pc' = "crashed"
                            /\ i' = i
                       ELSE /\ exc' = exc
                            /\ IF /\ num_updates' % PrintEvery(args.print_interval,
                                                                args.update_freq) = 0
                                  /\ args.testing
                               THEN \* break
                                    /\ pc' = "stats"
                                    /\ i' = i
                               ELSE /\ pc' = "loop"
                                    /\ i' = i + 1
    /\ UNCHANGED << args, epoch, eval_score, best_eval_score, optim, grads, buffered_stats,
                    tr_num_updates, meters, flat_size, ret, call, ckpt, faults, hist, ev >>

\* line 82: the loader has no micro-batch left
LoaderExhausted ==
    /\ pc = "loop"
    /\ i >= NumEmitted(args.N, args.batch_size)
    /\ pc' = "stats"
    /\ UNCHANGED << args, exc, epoch, i, num_updates, count_norm, eval_score,
                    best_eval_score, optim, grads, buffered_stats, tr_num_updates,
                    meters, flat_size, ret, call, ckpt, faults, hist, ev >>

\* lines 106-108: the epoch's totals are divided by num_updates
EpochStats ==
    /\ pc = "stats"
    /\ IF num_updates = 0
       THEN /\ exc' = "ZeroDivisionError"
            /\ pc' = "crashed"
       ELSE /\ exc' = exc
            /\ pc' = "evaluate"
    /\ UNCHANGED << args, epoch, i, num_updates, count_norm, eval_score,
                    best_eval_score, optim, grads, buffered_stats, tr_num_updates,
                    meters, flat_size, ret, call, ckpt, faults, hist, ev >>

\* lines 111-121: evaluation, and the log line that divides by count_norm
Evaluate ==
    /\ pc = "evaluate"
    /\ IF args.has_eval
       THEN eval_score' \in EvalScores
       ELSE eval_score' = eval_score
    /\ IF count_norm = 0
       THEN /\ exc' = "ZeroDivisionError"
            /\ pc' = "crashed"
       ELSE /\ exc' = exc
            /\ pc' = "save"
    /\ UNCHANGED << args, epoch, i, num_updates, count_norm, best_eval_score, optim,
                    grads, buffered_stats, tr_num_updates, meters, flat_size, ret, call,
                    ckpt, faults, hist, ev >>

\* a comparison that also takes a tie
IsBestOrEqual(score, best) == score >= best

\* line 128: eval_score > best_eval_score
IsBest(score, best) == score > best

\* lines 124-131: the epoch's checkpoint and the best checkpoint
Save ==
    /\ pc = "save"
    /\ IF epoch >= saving_epoch
       THEN IF args.has_eval /\ IsBest(eval_score, best_eval_score)
            THEN /\ ckpt' = [epochs |-> ckpt.epochs \cup {epoch}, best |-> epoch]
                 /\ best_eval_score' = eval_score
            ELSE /\ ckpt' = [ckpt EXCEPT !.epochs = @ \cup {epoch}]
                 /\ best_eval_score' = best_eval_score
       ELSE UNCHANGED << ckpt, best_eval_score >>
    /\ hist' = IF args.has_eval
               THEN [hist EXCEPT
                       !.max_all = Max2(@, eval_score),
                       !.max_saved = IF epoch >= saving_epoch
                                     THEN Max2(@, eval_score) ELSE @]
               ELSE hist
    /\ epoch' = epoch + 1
    /\ pc' = "epoch_start"
    /\ UNCHANGED << args, exc, i, num_updates, count_norm, eval_score, optim, grads,
                    buffered_stats, tr_num_updates, meters, flat_size, ret, call, faults,
                    ev >>

Next ==
    \/ EpochStart
    \/ TrainStep
    \/ DriverAccumulate
    \/ LoaderExhausted
    \/ EpochStats
    \/ Evaluate
    \/ Save

Spec == Init /\ [][Next]_vars

SpecSchedule == InitSchedule /\ [][Next]_vars


(***************************************************************************)
(* compute_score_with_logits and evaluate().                               *)
(***************************************************************************)
\* torch.max(logits, 1)[1]: for a row, the classes that hold its maximum
ArgMaxes(row) == {c \in 1..Len(row) : \A d \in 1..Len(row) : row[d] <= row[c]}

\* the index vectors torch.max(logits, 1)[1] may return for the rows of logits
IsArgMax(idx, logits) == \A n \in 1..Len(logits) : idx[n] \in ArgMaxes(logits[n])

\* one_hots that are 1 at every class
OneHotsAll(idx, labels) == [n \in 1..Len(labels) |-> [c \in 1..Len(labels[n]) |-> 1]]

\* one_hots = zeros(labels.size()); one_hots.scatter_(1, idx, 1)
OneHots(idx, labels) ==
    [n \in 1..Len(labels) |-> [c \in 1..Len(labels[n]) |-> IF c = idx[n] THEN 1 ELSE 0]]

\* a score that gives full credit wherever the predicted class has any weight
compute_score_indicator(idx, labels) ==
    [n \in 1..Len(labels) |->
        [c \in 1..Len(labels[n]) |->
            IF c = idx[n] /\ labels[n][c] # 0 THEN WeightOne ELSE 0]]

\* scores = one_hots * labels, idx being the argmax of the logits
compute_score_with_logits(idx, labels) ==
    [n \in 1..Len(labels) |->
        [c \in 1..Len(labels[n]) |-> OneHots(idx, labels)[n][c] * labels[n][c]]]

\* tensor.sum() of a matrix
SumAll(m) == SumSeq([n \in 1..Len(m) |-> SumSeq(m[n])])

\* labels.max(1)[1]: the (0-based) place of the maximum of every row
RowArgMax(m) == [n \in 1..Len(m) |-> (CHOOSE c \in ArgMaxes(m[n]) : TRUE) - 1]

\* labels.max(1)[0]: the maximum of every row
RowMax(m) == [n \in 1..Len(m) |-> CHOOSE x \in {m[n][c] : c \in 1..Len(m[n])} :
                                      \A c \in 1..Len(m[n]) : m[n][c] <= x]

\* the examples of the batch the loader emits at position pos
Batch(data, pos, batch_size) ==
    SubSeq(data, pos + 1, IF pos + batch_size < Len(data) THEN pos + batch_size ELSE Len(data))

InitEval ==
    \E n \in 1..MaxEvalN, batch_size \in 1..MaxBatchSize :
    \E data \in [1..n -> Examples], clip_norm \in ClipNorms :
        Start(Config(1, batch_size, 1, 1, FALSE, clip_norm, 1024, TRUE, 0, 1, {1}),
              0, "eval_loop", NewEval(data, batch_size))

\* lines 142-159: one batch of the evaluation loader
EvalBatch ==
    /\ pc = "eval_loop"
    /\ ev.pos < Len(ev.data)
    /\ LET batch == Batch(ev.data, ev.pos, ev.batch_size)
           a     == [n \in 1..Len(batch) |-> batch[n].a]
           qt    == [n \in 1..Len(batch) |-> batch[n].qt]
       IN
       \E idx \in [1..Len(batch) -> 1..2], qidx \in [1..Len(batch) -> 1..2] :
          /\ \E final_preds \in [1..Len(batch) -> LogitRows] : IsArgMax(idx, final_preds)
          /\ \E question_type_preds \in [1..Len(batch) -> LogitRows] :
                IsArgMax(qidx, question_type_preds)
          /\ LET batch_score == SumAll(compute_score_with_logits(idx, a))
                 question_type_batch_score == SumAll(compute_score_with_logits(qidx, qt))
             IN ev' = [ev EXCEPT
                         !.pos = @ + Len(batch),
                         !.score = @ + batch_score,
                         !.question_type_score = @ + question_type_batch_score,
                         !.upper_bound = @ + SumSeq(RowMax(a)),
                         !.question_type_upper_bound = @ + SumSeq(RowMax(qt)),
                         !.num_data = @ + Len(batch),
                         !.preds = idx, !.qt_preds = qidx,
                         !.batch_score = batch_score,
                         !.question_type_batch_score = question_type_batch_score]
    /\ UNCHANGED << args, pc, exc, epoch, i, num_updates, count_norm, eval_score,
                    best_eval_score, optim, grads, buffered_stats, tr_num_updates,
                    meters, flat_size, ret, call, ckpt, faults, hist >>

\* lines 161-166: every total is divided by len(dataloader.dataset)
EvalFinish ==
    /\ pc = "eval_loop"
    /\ ev.pos >= Len(ev.data)
    /\ ev' = [ev EXCEPT !.result =
                << [num |-> ev.score, den |-> Len(ev.data)],
                   [num |-> ev.upper_bound, den |-> Len(ev.data)],
                   [num |-> ev.question_type_score, den |-> Len(ev.data)],
                   [num |-> ev.question_type_upper_bound, den |-> Len(ev.data)] >>]
    /\ pc' = "eval_done"
    /\ UNCHANGED << args, exc, epoch, i, num_updates, count_norm, eval_score,
                    best_eval_score, optim, grads, buffered_stats, tr_num_updates,
                    meters, flat_size, ret, call, ckpt, faults, hist >>

NextEval ==
    \/ EvalBatch
    \/ EvalFinish

SpecEval == InitEval /\ [][NextEval]_vars


(***************************************************************************)
(* The claims.                                                             *)
(***************************************************************************)
\* a train_step call has been made and train() is back in its loop or has failed in it
Called == call.i >= 0 /\ pc \in {"after_step", "crashed"}

\* the step that is a train_step call
IsTrainStep == pc = "loop" /\ pc' \in {"after_step", "crashed"}

AllZero(gr) == \A k \in Params : gr[k] = [j \in 1..ParamNumel[k] |-> 0]

\* C1: micro-batch i is committed if and only if (i+1) is a multiple of update_freq or
\* i is the final micro-batch the loader emits in the epoch.
C1_CommitIffBoundaryOrFinal ==
    call.i >= 0 =>
        (call.commit <=> \/ (call.i + 1) % args.update_freq = 0
                         \/ call.i = NumEmitted(args.N, args.batch_size) - 1)

\* C2: a train_step call whose forward pass runs out of memory, buffering or
\* committing, leaves the optimizer as it was and the gradients zeroed, and no
\* exception leaves the training loop because of it.  (Stated for calls made when
\* every parameter has a gradient: without one a commit fails in _get_grads.)
C2_ForwardOomKeepsOptimizer ==
    [][ /\ (IsTrainStep /\ call'.oom_fwd = 1 /\ ~MissingGrad(grads))
            => (optim' = optim /\ grads' = zero_grad(grads) /\ exc' = "none")
        /\ (pc = "after_step" /\ call.oom_fwd = 1) => exc' # "AttributeError" ]_vars

\* C3: an OOM in the forward or backward pass of a micro-batch drops only that
\* micro-batch: the gradients of the other micro-batches since the last commit are
\* what the parameters hold after the call, and what the next optimizer step is given
\* (divided by the denominator).
C3_OomDropsOnlyItsMicroBatch ==
    (Called /\ hist.pend_oom /\ pc = "after_step") =>
        /\ ~call.commit => \A k \in Params :
                              grads[k] = <<>> \/ grads[k] = Contribution(hist.pend_sum)[k]
        /\ call.stepped => optim.last.num = Contribution(hist.pend_sum)

\* C4: at the commit of a group of the epoch (update_freq micro-batches, or the
\* shorter final group) without OOM and without clipping, the gradient given to
\* the optimizer is the sum of the group's gradients divided by their number.
C4_CommitGivesGroupAverage ==
    (Called /\ call.stepped /\ ~hist.grp_oom /\ ~hist.pend_oom /\ ~optim.last.clipped) =>
        \A k \in Params : \A j \in 1..ParamNumel[k] :
            optim.last.num[k][j] * hist.grp_n
                = Contribution(hist.grp_sum)[k][j] * optim.last.den


\* train() is inside epoch e, past the selection of its learning rate
InEpoch(e) == epoch = e /\ pc \in {"loop", "after_step", "stats", "evaluate", "save"}

\* C5 as stated: from epoch 0 with lr = 0.001 (1024), the rate is 0.0005 in epoch 0,
\* 0.001 in epoch 3, 0.00025 in epoch 10 and 0.0000625 in epoch 12.
C5_LrScheduleAsStated ==
    (args.lr = 1024 /\ args.s_epoch = 0) =>
        /\ InEpoch(0) => optim.lr = 512
        /\ InEpoch(3) => optim.lr = 1024
        /\ InEpoch(10) => optim.lr = 256
        /\ InEpoch(12) => optim.lr = 64

\* C5 amended: from epoch 0 with lr = 0.001 (1024), the rate is 0.0005 in epoch 0,
\* 0.002 in epoch 3 (the last warmup step, 2.0 x base), 0.0005 in epoch 10
\* (0.002 x 0.25) and 0.000125 in epoch 12 (0.0005 x 0.25).
C5_LrScheduleAsCoded ==
    (args.lr = 1024 /\ args.s_epoch = 0) =>
        /\ InEpoch(0) => optim.lr = 512
        /\ InEpoch(3) => optim.lr = 2048
        /\ InEpoch(10) => optim.lr = 512
        /\ InEpoch(12) => optim.lr = 128

C5_Witness == args.lr = 1024 /\ args.s_epoch = 0 /\ InEpoch(12) /\ optim.lr = 128

\* C6: the head of epoch e sets the rate to (e+1)/2 x base if e < 4, to a quarter of
\* the previous epoch's rate if e is 10, 12, 14, 16 or 18, and leaves it otherwise; no
\* other step changes it.
C6_LrSelectedByThreeBranches ==
    [][ /\ (pc = "epoch_start" /\ pc' = "loop") =>
              IF epoch < 4 THEN 2 * optim'.lr = (epoch + 1) * args.lr
              ELSE IF epoch \in {10, 12, 14, 16, 18} THEN 4 * optim'.lr = optim.lr
              ELSE optim'.lr = optim.lr
        /\ ~(pc = "epoch_start" /\ pc' = "loop") => optim'.lr = optim.lr ]_vars

C6_Witness == InEpoch(18) /\ 512 * optim.lr = args.lr /\ optim.steps > 0

\* C7 as stated: from saving_epoch on, the best checkpoint is overwritten in an
\* epoch exactly when its evaluation score is above the score of every earlier epoch
\* of the run.
C7_BestIffAboveAllEpochs ==
    [][ (pc = "save" /\ args.has_eval /\ epoch >= saving_epoch) =>
            (ckpt'.best = epoch <=> eval_score > hist.max_all) ]_vars

\* C7 amended: from saving_epoch on, the best checkpoint is overwritten in an epoch
\* exactly when its evaluation score is above 0 and above the score of every
\* earlier epoch from saving_epoch on.
C7_BestIffAboveSavedEpochs ==
    [][ (pc = "save" /\ args.has_eval /\ epoch >= saving_epoch) =>
            (ckpt'.best = epoch <=> (eval_score > 0 /\ eval_score > hist.max_saved)) ]_vars

C7_Witness ==
    /\ pc = "epoch_start" /\ args.has_eval
    /\ epoch - 1 > saving_epoch /\ ckpt.best = epoch - 1
    /\ hist.max_saved = eval_score

\* C8: when the rescaling of a commit raises OverflowError, train_step zeroes the
\* gradients, takes no optimizer step, leaves the update counter and the meters,
\* clears the buffered stats and returns its result to the loop.
C8_OverflowSkipsTheStep ==
    [][ (IsTrainStep /\ call'.overflow) =>
            /\ AllZero(grads')
            /\ optim' = optim
            /\ tr_num_updates' = tr_num_updates
            /\ meters' = meters
            /\ buffered_stats' = NoStats
            /\ pc' = "after_step" /\ exc' = "none"
            /\ ret'.returned = "tuple" /\ ret'.norm_sq.num = 0 ]_vars

C8_Witness ==
    /\ pc = "after_step" /\ call.overflow /\ call.commit
    /\ hist.pend_sum > 0 /\ optim.steps > 0 /\ AllZero(grads)


\* the examples of the batch evaluate() scored last
LastBatch == SubSeq(ev.data, ev.pos - Len(ev.preds) + 1, ev.pos)

\* the largest weight of a row of labels
MaxWeight(row) == CHOOSE x \in 0..WeightOne :
                      /\ \E c \in 1..Len(row) : row[c] = x
                      /\ \A c \in 1..Len(row) : row[c] <= x

\* C9 as stated: the summed score of a batch is the number of its examples whose
\* predicted (argmax) class has a nonzero label weight, for the answer head and
\* for the question-type head.
C9_ScoreCountsExamples ==
    Len(ev.preds) > 0 =>
        /\ ev.batch_score = WeightOne * Cardinality(
               {n \in 1..Len(LastBatch) : LastBatch[n].a[ev.preds[n]] # 0})
        /\ ev.question_type_batch_score = WeightOne * Cardinality(
               {n \in 1..Len(LastBatch) : LastBatch[n].qt[ev.qt_preds[n]] # 0})

\* C9 amended: the summed score of a batch is the sum over its examples of the label
\* weight at the predicted (argmax) class, for the answer head and for the
\* question-type head.
C9_ScoreSumsWeightAtArgmax ==
    Len(ev.preds) > 0 =>
        /\ ev.batch_score =
               SumSeq([n \in 1..Len(LastBatch) |-> LastBatch[n].a[ev.preds[n]]])
        /\ ev.question_type_batch_score =
               SumSeq([n \in 1..Len(LastBatch) |-> LastBatch[n].qt[ev.qt_preds[n]]])

C9_Witness ==
    /\ Len(ev.preds) = 2
    /\ ev.batch_score = WeightOne + 3
    /\ ev.question_type_batch_score = WeightOne

\* C10: the upper bound evaluate() returns for a head is the sum over all examples
\* of the example's largest label weight, divided by the size of the dataset,
\* whatever the predictions and the batch size.
C10_UpperBoundIsMeanMaxWeight ==
    pc = "eval_done" =>
        /\ ev.result[2] = [num |-> SumSeq([n \in 1..Len(ev.data) |-> MaxWeight(ev.data[n].a)]),
                           den |-> Len(ev.data)]
        /\ ev.result[4] = [num |-> SumSeq([n \in 1..Len(ev.data) |-> MaxWeight(ev.data[n].qt)]),
                           den |-> Len(ev.data)]

C10_Witness ==
    /\ pc = "eval_done"
    /\ Len(ev.data) = 3 /\ ev.batch_size = 2 /\ Len(ev.preds) = 1
    /\ ev.result[2].num = WeightOne + 6 /\ ev.result[1].num = 3
    /\ ev.result[4].num = 2 * WeightOne + 3 /\ ev.result[3].num = 0


\* C11: at a commit that follows an OOM among the micro-batches since the last commit,
\* the denominator of the rescaling is the number of those micro-batches whose
\* gradient is part of the accumulated gradient; the micro-batch that ran out of
\* memory is not counted.
C11_DenominatorLeavesOutOom ==
    (pc = "after_step" /\ call.stepped /\ call.oom_fwd + call.oom_bwd = 0 /\ hist.pend_oom) =>
        optim.last.den = hist.pend_live

\* C12: after every train_step call that returned, each of the three buffered stats
\* holds one entry per call made since the last commit that returned: a buffered
\* call appends one entry to each, and a commit that returns, by the optimizer step
\* or by the overflow path, leaves the buffer empty.
C12_OneBufferedEntryPerCall ==
    pc = "after_step" =>
        LET n == IF call.commit THEN 0 ELSE hist.pend_calls IN
        /\ Len(buffered_stats.sample_sizes) = n
        /\ Len(buffered_stats.ooms_fwd) = n
        /\ Len(buffered_stats.ooms_bwd) = n
        /\ call.commit => (call.stepped \/ call.overflow)

C12_Witness ==
    /\ pc = "after_step" /\ ~call.commit
    /\ hist.pend_calls = 2 /\ hist.pend_oom
    /\ Len(buffered_stats.sample_sizes) = 2
    /\ tr_num_updates > 0

\* C13: a buffered train_step call (commit = false) without OOM leaves the
\* optimizer, the update counter and the meters as they were, adds the micro-batch's
\* gradient to the accumulated gradient, appends one entry to each buffered stat and
\* returns no result.
C13_BufferedCallOnlyAccumulates ==
    [][ (IsTrainStep /\ ~call'.commit /\ call'.forward = "ok" /\ call'.backward = "ok") =>
            /\ optim' = optim
            /\ tr_num_updates' = tr_num_updates
            /\ meters' = meters
            /\ flat_size' = flat_size
            /\ \A k \in Params : \A j \in 1..ParamNumel[k] :
                  grads'[k][j] = (IF grads[k] = <<>> THEN 0 ELSE grads[k][j])
                                 + call'.g * (Offset(k) + j)
            /\ buffered_stats'.sample_sizes = Append(buffered_stats.sample_sizes, 1)
            /\ buffered_stats'.ooms_fwd = Append(buffered_stats.ooms_fwd, 0)
            /\ buffered_stats'.ooms_bwd = Append(buffered_stats.ooms_bwd, 0)
            /\ ret'.returned = "None"
            /\ pc' = "after_step" /\ exc' = "none" ]_vars

C13_Witness ==
    /\ pc = "after_step" /\ ~call.commit /\ call.forward = "ok" /\ call.backward = "ok"
    /\ Len(buffered_stats.sample_sizes) = 2
    /\ grads[2] = <<4, 6>>
    /\ optim.steps > 0

\* C14: copying a flat buffer into the parameters' gradients with _set_flat_grads and
\* flattening them again with _get_flat_grads gives the buffer back, for any set of
\* parameters; the element at a place of the buffer belongs to the same parameter
\* element both ways, and the buffer is as long as the parameters have elements.
C14_FlatRoundTrip ==
    (pc = "after_step" /\ call.stepped) =>
        /\ LET flat == _get_flat_grads(optim.last.num) IN
           /\ _get_flat_grads(_set_flat_grads(flat)) = flat
           /\ Len(flat) = SumSeq(ParamNumel)
           /\ flat_size = Len(flat)
           /\ \A j \in 1..Len(flat) : flat[j] = j * flat[1]
        /\ \A numel \in NumelSets : \A flat \in [1..SumSeq(numel) -> FlatValues] :
              /\ Concat(Scatter(numel, flat)) = flat
              /\ \A k \in 1..Len(numel) : Len(Scatter(numel, flat)[k]) = numel[k]

C14_Witness ==
    /\ pc = "after_step" /\ call.stepped
    /\ optim.last.num = << <<3>>, <<6, 9>> >>
    /\ flat_size = 3

\* C15: a RuntimeError of the forward or backward pass that is not an out-of-memory
\* one, and a trainable parameter without gradient at a commit, leave train_step as
\* a RuntimeError; the call takes no optimizer step.
C15_OtherFailuresPropagate ==
    [][ (/\ IsTrainStep
         /\ \/ call'.forward = "error"
            \/ (call'.forward = "ok" /\ call'.backward = "error")
            \/ (call'.commit /\ \E k \in Params : grads'[k] = <<>>))
        => /\ pc' = "crashed" /\ exc' = "RuntimeError"
           /\ optim' = optim
           /\ tr_num_updates' = tr_num_updates
           /\ meters' = meters ]_vars

C15_Witness ==
    /\ pc = "crashed" /\ exc = "RuntimeError"
    /\ call.backward = "error" /\ call.commit
    /\ optim.steps > 0

\* a commit reached while a parameter has no gradient fails in _get_grads
C15_WitnessMissingGradient ==
    /\ pc = "crashed" /\ exc = "RuntimeError"
    /\ call.commit /\ call.forward = "oom" /\ grads = NoGrads

\* C16: when the training pass of an epoch is over (the loader emitted at least one
\* micro-batch), at least one commit has happened: num_updates and count_norm are
\* at least 1 where the epoch's totals are divided by them.
C16_EpochHasACommit ==
    pc = "stats" => (num_updates >= 1 /\ count_norm >= 1)

\* C17: after every commit whose loss the driver accumulated, the modulus
\* int(print_interval / update_freq) of the progress check is not zero.
C17_PrintModulusIsNonzero ==
    (pc = "after_step" /\ ret.returned = "tuple" /\ ret.loss # "None") =>
        PrintEvery(args.print_interval, args.update_freq) # 0

\* C18: each score evaluate() returns is at most its upper bound, for the answer
\* head and for the question-type head, and so is the running total after every
\* batch.
C18_ScoreAtMostUpperBound ==
    /\ ev.score <= ev.upper_bound
    /\ ev.question_type_score <= ev.question_type_upper_bound
    /\ pc = "eval_done" =>
          /\ ev.result[1].den = ev.result[2].den /\ ev.result[1].num <= ev.result[2].num
          /\ ev.result[3].den = ev.result[4].den /\ ev.result[3].num <= ev.result[4].num

C18_Witness ==
    /\ pc = "eval_done" /\ Len(ev.data) = 2
    /\ ev.result[1].num = WeightOne + 3 /\ ev.result[2].num = WeightOne + 6
    /\ ev.result[3].num = 2 * WeightOne /\ ev.result[4].num = 2 * WeightOne

====
